---- MODULE Spec2Model ----
(***************************************************************************)
(* Model of the WebSocket presence / location hub of                       *)
(* src/live-tracker/public/touch_server.js.                                *)
(*                                                                         *)
(* Time is counted in ticks.  The durations of the program (rate window,   *)
(* registration timeout, janitor interval, location TTL) and its two       *)
(* capacities are scaled down so that every one of them elapses, or fills, *)
(* inside the explored horizon: each duration is one tick, so that an age  *)
(* is below it (0), equal to it (1) or above it (2) within MaxTime.        *)
(* A timer runs at the tick it is due; everything that happens at one tick *)
(* interleaves freely.                                                     *)
(*                                                                         *)
(* JavaScript Maps are sequences of their values in insertion order (every *)
(* value of users and locations carries its key as .userId).  The Map      *)
(* userConnections is written and never read by the program; it is left    *)
(* out.                                                                    *)
(***************************************************************************)
EXTENDS Integers, Sequences, FiniteSets, TLC

VARIABLES now, readyState, wsUserId, connectionTimeout,
          users, locations, rateLimits, nextCleanup,
          admitted, out, last

vars == <<now, readyState, wsUserId, connectionTimeout,
          users, locations, rateLimits, nextCleanup,
          admitted, out, last>>

(***************************************************************************)
(* now                Date.now()                                           *)
(* readyState[c]      of the socket of connection c: NEW before it is      *)
(*                    accepted, then OPEN, CLOSING (the server called      *)
(*                    ws.close), CLOSED (the 'close' event has run)        *)
(* wsUserId[c]        ws.userId                                            *)
(* connectionTimeout[c]  when the registration timer is due, or NoTimer    *)
(* users, locations   the Maps, in insertion order                         *)
(* rateLimits[u]      the Map; a missing key reads as the empty list       *)
(* nextCleanup        when the setInterval callback is due                 *)
(* out                the sends of the last event, in order                *)
(* last               the last event (of a sweep: with cleanedLocations,   *)
(*                    the number of Locations the callback counts deleted) *)
(* admitted           history variable, see Recent                         *)
(***************************************************************************)

(***************************************************************************)
(* Bounds of the exploration.                                              *)
(***************************************************************************)
MaxTime == 2

(***************************************************************************)
(* CONFIG and the registration timeout, scaled.                            *)
(***************************************************************************)
LOCATION_TIMEOUT == 1
CLEANUP_INTERVAL == 1
RATE_LIMIT_WINDOW == 1
MAX_REQUESTS_PER_WINDOW == 2
MAX_USERS == 2
REGISTRATION_TIMEOUT == 1

\* the connections, named in the order the server accepts them
Conns == {"c1", "c2"}
Before(d, c) == d = "c1" /\ c = "c2"
\* identities clients register with, and those they send locations for
Ids == {"a", "b", "c"}
LocIds == {"a", "b"}

\* JavaScript undefined (a missing property), and a userId that is a number.
Undef == "undefined"
NumberId == "5"
NoConn == "none"
NoTimer == 0 - 1

\* typeof x === 'string' for the values a userId takes in this model
IsString(x) == x \in Ids \cup {"", "Alice", "Anonymous"}
\* truthiness of those values
Truthy(x) == x # Undef /\ x # ""
\* a || b
Or(a, b) == IF Truthy(a) THEN a ELSE b

(***************************************************************************)
(* parseFloat.  A coordinate is the sequence of characters of String(x),   *)
(* x the JSON value received: parseFloat reads the longest numeric prefix  *)
(* (an optional sign, then digits) and yields NaN when there is none.      *)
(* Only integers are sent in this model.                                   *)
(***************************************************************************)
Digits == <<"0", "1", "2", "3", "4", "5", "6", "7", "8", "9">>
IsDigit(ch) == \E d \in 1..10 : Digits[d] = ch
DigitVal(ch) == (CHOOSE d \in 1..10 : Digits[d] = ch) - 1

RECURSIVE ReadDigits(_, _, _)
ReadDigits(s, i, acc) ==
    IF i <= Len(s) /\ IsDigit(s[i])
    THEN ReadDigits(s, i + 1, acc * 10 + DigitVal(s[i]))
    ELSE acc

NaN == [nan |-> TRUE, v |-> 0]
Num(n) == [nan |-> FALSE, v |-> n]
isNaN(x) == x.nan

parseFloat(s) ==
    LET neg == Len(s) >= 1 /\ s[1] = "-"
        first == IF Len(s) >= 1 /\ (s[1] = "-" \/ s[1] = "+") THEN 2 ELSE 1
    IN  IF first <= Len(s) /\ IsDigit(s[first])
        THEN Num(IF neg THEN 0 - ReadDigits(s, first, 0) ELSE ReadDigits(s, first, 0))
        ELSE NaN

\* isValidLocation with the longitude bound used for the latitude
isValidLocation_LatitudeTo180(lat, lng) ==
    LET latitude == parseFloat(lat)
        longitude == parseFloat(lng)
    IN  /\ ~isNaN(latitude)
        /\ ~isNaN(longitude)
        /\ latitude.v >= -180
        /\ latitude.v <= 180
        /\ longitude.v >= -180
        /\ longitude.v <= 180

isValidLocation(lat, lng) ==
    LET latitude == parseFloat(lat)
        longitude == parseFloat(lng)
    IN  /\ ~isNaN(latitude)
        /\ ~isNaN(longitude)
        /\ latitude.v >= -90
        /\ latitude.v <= 90
        /\ longitude.v >= -180
        /\ longitude.v <= 180

(***************************************************************************)
(* Map operations on a sequence of values keyed by .userId.                *)
(***************************************************************************)
MapHas(m, k) == \E i \in 1..Len(m) : m[i].userId = k
MapGet(m, k) == m[CHOOSE i \in 1..Len(m) : m[i].userId = k]
MapSet(m, v) ==
    IF MapHas(m, v.userId)
    THEN [i \in 1..Len(m) |-> IF m[i].userId = v.userId THEN v ELSE m[i]]
    ELSE Append(m, v)
MapDelete(m, k) == SelectSeq(m, LAMBDA e : e.userId # k)

(***************************************************************************)
(* Inbound messages: the text of a frame, parsed.  json = FALSE is a frame *)
(* JSON.parse throws on; a missing property is Undef (a missing coordinate *)
(* is the characters of String(undefined)).                                *)
(***************************************************************************)
Chars(x) ==
    CASE x = "12abc" -> <<"1", "2", "a", "b", "c">>
      [] x = "95" -> <<"9", "5">>
      [] x = "abc" -> <<"a", "b", "c">>
      [] x = "20" -> <<"2", "0">>
      [] x = "-181" -> <<"-", "1", "8", "1">>
      [] OTHER -> <<"u", "n", "d", "e", "f", "i", "n", "e", "d">>

Data(type, userId, name, lat, lng, targetUserId) ==
    [json |-> TRUE, type |-> type, userId |-> userId, name |-> name,
     lat |-> lat, lng |-> lng, targetUserId |-> targetUserId]

NoData == Data("none", Undef, Undef, Undef, Undef, Undef)
BadJson == [NoData EXCEPT !.json = FALSE, !.type = Undef]

\* <<lat, lng>> as sent: one valid pair, and the ways of being invalid
Coordinates ==
    {<<"12abc", "20">>, <<"95", "20">>, <<"abc", "20">>, <<"12abc", "-181">>,
     <<"12abc", Undef>>}
\* <<userId, name>> as sent in a register
Registrations ==
    {<<"a", "Alice">>, <<"b", Undef>>, <<"c", Undef>>, <<Undef, Undef>>,
     <<NumberId, "Alice">>}

Register(userId, name) == Data("register", userId, name, Undef, Undef, Undef)
LocationUpdate(userId, lat, lng) == Data("location_update", userId, Undef, lat, lng, Undef)
StopSharing(userId) == Data("stop_sharing", userId, Undef, Undef, Undef, Undef)
TrackUser(targetUserId) == Data("track_user", Undef, Undef, Undef, Undef, targetUserId)
Ping == Data("ping", Undef, Undef, Undef, Undef, Undef)
NoType == Data(Undef, Undef, Undef, Undef, Undef, Undef)
UnknownType == Data("foo", Undef, Undef, Undef, Undef, Undef)

Inbound ==
    {BadJson, NoType, UnknownType, Ping}
    \cup {Register(r[1], r[2]) : r \in Registrations}
    \cup {LocationUpdate(u, p[1], p[2]) : u \in LocIds, p \in Coordinates}
    \cup {StopSharing(u) : u \in LocIds \cup {Undef}}
    \cup {TrackUser(t) : t \in LocIds \cup {Undef}}

(***************************************************************************)
(* Outbound messages, and the record of one ws.send: to = the sockets send *)
(* was called on, bc = the send was made by broadcastToAll.                *)
(***************************************************************************)
ErrorMsg(text) == [type |-> "error", message |-> text]
\* `Unknown message type: ${data.type}`, foo being the unknown type clients send
UnknownTypeText(type) ==
    IF type = "foo" THEN "Unknown message type: foo" ELSE "Unknown message type"
WelcomeMsg == [type |-> "welcome", message |-> "Connected to location tracker server"]
PongMsg == [type |-> "pong"]
LocationMsg(location) ==
    [type |-> "location_update", userId |-> location.userId, lat |-> location.lat,
     lng |-> location.lng, name |-> location.name, timestamp |-> location.timestamp]

\* ws.send(message) on the socket of connection c
send(S, c, message) ==
    [S EXCEPT !.out = Append(@, [to |-> {c}, bc |-> FALSE, msg |-> message])]

\* wss.clients.forEach(client => readyState === OPEN && client.send(message))
broadcastToAll(S, message) ==
    [S EXCEPT !.out = Append(@, [to |-> S.open, bc |-> TRUE, msg |-> message])]

broadcastUserList(S) ==
    broadcastToAll(S,
        [type |-> "user_list",
         users |-> [i \in 1..Len(S.users) |->
                      [userId |-> S.users[i].userId, name |-> S.users[i].name,
                       connectedAt |-> S.users[i].connectedAt]],
         timestamp |-> now])

broadcastLocationUpdate(S, data) ==
    broadcastToAll(S,
        [type |-> "location_update", userId |-> data.userId,
         lat |-> parseFloat(Chars(data.lat)).v, lng |-> parseFloat(Chars(data.lng)).v,
         name |-> Or(data.name, "Anonymous"), timestamp |-> now])

broadcastLocationStop(S, userId) ==
    broadcastToAll(S, [type |-> "location_stop", userId |-> userId, timestamp |-> now])

\* ws.close(code, reason): an open socket sends its close frame and is CLOSING
\* until the 'close' event
close(S, c, code) ==
    IF S.rs = "OPEN"
    THEN [S EXCEPT !.rs = "CLOSING",
                   !.out = Append(@, [to |-> {c}, bc |-> FALSE,
                                      msg |-> [type |-> "close", code |-> code]])]
    ELSE S

RECURSIVE sendLocationsFrom(_, _, _)
sendLocationsFrom(S, c, i) ==
    IF i > Len(S.locations) THEN S
    ELSE sendLocationsFrom(
            IF now - S.locations[i].timestamp < LOCATION_TIMEOUT
            THEN send(S, c, LocationMsg(S.locations[i]))
            ELSE S,
            c, i + 1)

\* sendExistingLocations without the freshness test
RECURSIVE sendEveryLocationFrom(_, _, _)
sendEveryLocationFrom(S, c, i) ==
    IF i > Len(S.locations) THEN S
    ELSE sendEveryLocationFrom(send(S, c, LocationMsg(S.locations[i])), c, i + 1)

sendExistingLocations_Unfiltered(S, c) == sendEveryLocationFrom(S, c, 1)

\* sendExistingLocations sending a Location whose age equals the TTL too
RECURSIVE sendLocationsUpToTimeoutFrom(_, _, _)
sendLocationsUpToTimeoutFrom(S, c, i) ==
    IF i > Len(S.locations) THEN S
    ELSE sendLocationsUpToTimeoutFrom(
            IF now - S.locations[i].timestamp <= LOCATION_TIMEOUT
            THEN send(S, c, LocationMsg(S.locations[i]))
            ELSE S,
            c, i + 1)

sendExistingLocations_UpToTimeout(S, c) == sendLocationsUpToTimeoutFrom(S, c, 1)

sendExistingLocations(S, c) == sendLocationsFrom(S, c, 1)

(***************************************************************************)
(* The rate limiter: <<limited, the new rateLimits>>.                      *)
(***************************************************************************)
InWindow(requests, t) == SelectSeq(requests, LAMBDA timestamp : t - timestamp < RATE_LIMIT_WINDOW)

\* isRateLimited comparing with > : one request too many is let through
isRateLimited_OffByOne(limits, userId) ==
    LET validRequests == InWindow(limits[userId], now)
    IN  IF Len(validRequests) > MAX_REQUESTS_PER_WINDOW
        THEN [limited |-> TRUE, limits |-> limits]
        ELSE [limited |-> FALSE,
              limits |-> [limits EXCEPT ![userId] = Append(validRequests, now)]]

\* isRateLimited recording the request before the count check, so that a
\* rejected request is recorded too
isRateLimited_RecordsRejected(limits, userId) ==
    LET validRequests == InWindow(limits[userId], now)
    IN  IF Len(validRequests) >= MAX_REQUESTS_PER_WINDOW
        THEN [limited |-> TRUE,
              limits |-> [limits EXCEPT ![userId] = Append(validRequests, now)]]
        ELSE [limited |-> FALSE,
              limits |-> [limits EXCEPT ![userId] = Append(validRequests, now)]]

\* isRateLimited adding the request to the stored list instead of the
\* filtered one
isRateLimited_KeepsOld(limits, userId) ==
    LET validRequests == InWindow(limits[userId], now)
    IN  IF Len(validRequests) >= MAX_REQUESTS_PER_WINDOW
        THEN [limited |-> TRUE, limits |-> limits]
        ELSE [limited |-> FALSE,
              limits |-> [limits EXCEPT ![userId] = Append(limits[userId], now)]]

isRateLimited(limits, userId) ==
    LET validRequests == InWindow(limits[userId], now)
    IN  IF Len(validRequests) >= MAX_REQUESTS_PER_WINDOW
        THEN [limited |-> TRUE, limits |-> limits]
        ELSE [limited |-> FALSE,
              limits |-> [limits EXCEPT ![userId] = Append(validRequests, now)]]

(***************************************************************************)
(* The message handlers.  S is the state a handler works on: the stores,   *)
(* and of the socket ws of connection c its userId (uid), readyState (rs), *)
(* close code and registration timer (timeout); open = wss.clients that    *)
(* are OPEN; out = the sends made so far in this event.                    *)
(***************************************************************************)
\* handleUserRegistration binding ws.userId before it validates the identity
handleUserRegistration_BindsFirst(S, c, data) ==
    LET S1 == [S EXCEPT !.timeout = NoTimer, !.uid = data.userId]
        userId == data.userId
        userName == Or(data.name, "Anonymous")
    IN  IF ~Truthy(userId) \/ ~IsString(userId)
        THEN send(S1, c, ErrorMsg("Invalid user ID"))
        ELSE IF Len(S1.users) >= MAX_USERS /\ ~MapHas(S1.users, userId)
        THEN close(send(S1, c, ErrorMsg("Server at capacity")), c, 1013)
        ELSE LET S2 == [S1 EXCEPT
                          !.users = MapSet(@, [userId |-> userId, name |-> userName,
                                               connectedAt |-> now, lastSeen |-> now])]
                 S3 == send(S2, c, [type |-> "registration_success", userId |-> userId])
             IN  sendExistingLocations(broadcastUserList(S3), c)

\* handleUserRegistration comparing users.size with > : one Session too many
handleUserRegistration_CapacityOffByOne(S, c, data) ==
    LET S1 == [S EXCEPT !.timeout = NoTimer]
        userId == data.userId
        userName == Or(data.name, "Anonymous")
    IN  IF ~Truthy(userId) \/ ~IsString(userId)
        THEN send(S1, c, ErrorMsg("Invalid user ID"))
        ELSE IF Len(S1.users) > MAX_USERS /\ ~MapHas(S1.users, userId)
        THEN close(send(S1, c, ErrorMsg("Server at capacity")), c, 1013)
        ELSE LET S2 == [S1 EXCEPT
                          !.users = MapSet(@, [userId |-> userId, name |-> userName,
                                               connectedAt |-> now, lastSeen |-> now]),
                          !.uid = userId]
                 S3 == send(S2, c, [type |-> "registration_success", userId |-> userId])
             IN  sendExistingLocations(broadcastUserList(S3), c)

\* handleUserRegistration pushing the snapshot before the user list
handleUserRegistration_SnapshotFirst(S, c, data) ==
    LET S1 == [S EXCEPT !.timeout = NoTimer]
        userId == data.userId
        userName == Or(data.name, "Anonymous")
    IN  IF ~Truthy(userId) \/ ~IsString(userId)
        THEN send(S1, c, ErrorMsg("Invalid user ID"))
        ELSE IF Len(S1.users) >= MAX_USERS /\ ~MapHas(S1.users, userId)
        THEN close(send(S1, c, ErrorMsg("Server at capacity")), c, 1013)
        ELSE LET S2 == [S1 EXCEPT
                          !.users = MapSet(@, [userId |-> userId, name |-> userName,
                                               connectedAt |-> now, lastSeen |-> now]),
                          !.uid = userId]
                 S3 == send(S2, c, [type |-> "registration_success", userId |-> userId])
             IN  broadcastUserList(sendExistingLocations(S3, c))

\* handleUserRegistration without the user limit
handleUserRegistration_NoLimit(S, c, data) ==
    LET S1 == [S EXCEPT !.timeout = NoTimer]
        userId == data.userId
        userName == Or(data.name, "Anonymous")
    IN  IF ~Truthy(userId) \/ ~IsString(userId)
        THEN send(S1, c, ErrorMsg("Invalid user ID"))
        ELSE LET S2 == [S1 EXCEPT
                          !.users = MapSet(@, [userId |-> userId, name |-> userName,
                                               connectedAt |-> now, lastSeen |-> now]),
                          !.uid = userId]
                 S3 == send(S2, c, [type |-> "registration_success", userId |-> userId])
             IN  sendExistingLocations(broadcastUserList(S3), c)

handleUserRegistration(S, c, data) ==
    LET S1 == [S EXCEPT !.timeout = NoTimer]
        userId == data.userId
        userName == Or(data.name, "Anonymous")
    IN  IF ~Truthy(userId) \/ ~IsString(userId)
        THEN send(S1, c, ErrorMsg("Invalid user ID"))
        ELSE IF Len(S1.users) >= MAX_USERS /\ ~MapHas(S1.users, userId)
        THEN close(send(S1, c, ErrorMsg("Server at capacity")), c, 1013)
        ELSE LET S2 == [S1 EXCEPT
                          !.users = MapSet(@, [userId |-> userId, name |-> userName,
                                               connectedAt |-> now, lastSeen |-> now]),
                          !.uid = userId]
                 S3 == send(S2, c, [type |-> "registration_success", userId |-> userId])
             IN  sendExistingLocations(broadcastUserList(S3), c)

\* handleLocationUpdate answering the sender instead of broadcasting
handleLocationUpdate_RepliesOnly(S, c, data) ==
    IF ~Truthy(S.uid)
    THEN send(S, c, ErrorMsg("Not registered"))
    ELSE IF ~isValidLocation(Chars(data.lat), Chars(data.lng))
    THEN send(S, c, ErrorMsg("Invalid location data"))
    ELSE LET S1 == [S EXCEPT
                      !.locations = MapSet(@, [userId |-> data.userId,
                                               lat |-> parseFloat(Chars(data.lat)).v,
                                               lng |-> parseFloat(Chars(data.lng)).v,
                                               name |-> Or(data.name, "Anonymous"),
                                               timestamp |-> now])]
         IN  send(S1, c, LocationMsg(MapGet(S1.locations, data.userId)))

handleLocationUpdate(S, c, data) ==
    IF ~Truthy(S.uid)
    THEN send(S, c, ErrorMsg("Not registered"))
    ELSE IF ~isValidLocation(Chars(data.lat), Chars(data.lng))
    THEN send(S, c, ErrorMsg("Invalid location data"))
    ELSE LET S1 == [S EXCEPT
                      !.locations = MapSet(@, [userId |-> data.userId,
                                               lat |-> parseFloat(Chars(data.lat)).v,
                                               lng |-> parseFloat(Chars(data.lng)).v,
                                               name |-> Or(data.name, "Anonymous"),
                                               timestamp |-> now])]
             S2 == IF MapHas(S1.users, data.userId)
                   THEN [S1 EXCEPT !.users =
                           MapSet(@, [MapGet(S1.users, data.userId) EXCEPT !.lastSeen = now])]
                   ELSE S1
         IN  broadcastLocationUpdate(S2, data)

\* handleStopSharing broadcasting whether or not a Location was stored
handleStopSharing_AlwaysBroadcasts(S, c, data) ==
    IF ~Truthy(S.uid) THEN S
    ELSE LET userId == Or(data.userId, S.uid)
         IN  broadcastLocationStop([S EXCEPT !.locations = MapDelete(@, userId)], userId)

handleStopSharing(S, c, data) ==
    IF ~Truthy(S.uid) THEN S
    ELSE LET userId == Or(data.userId, S.uid)
         IN  IF MapHas(S.locations, userId)
             THEN broadcastLocationStop(
                     [S EXCEPT !.locations = MapDelete(@, userId)], userId)
             ELSE S

\* handleTrackUser without the freshness test
handleTrackUser_AnyAge(S, c, data) ==
    LET targetUserId == data.targetUserId
    IN  IF ~Truthy(targetUserId)
        THEN send(S, c, ErrorMsg("Invalid target user ID"))
        ELSE IF MapHas(S.locations, targetUserId)
        THEN send(S, c, LocationMsg(MapGet(S.locations, targetUserId)))
        ELSE S

handleTrackUser(S, c, data) ==
    LET targetUserId == data.targetUserId
    IN  IF ~Truthy(targetUserId)
        THEN send(S, c, ErrorMsg("Invalid target user ID"))
        ELSE IF MapHas(S.locations, targetUserId)
                /\ now - MapGet(S.locations, targetUserId).timestamp < LOCATION_TIMEOUT
        THEN send(S, c, LocationMsg(MapGet(S.locations, targetUserId)))
        ELSE S

\* handleClientDisconnect removing the Session only
handleClientDisconnect_KeepsLocation(S, c) ==
    IF Truthy(S.uid)
    THEN broadcastUserList([S EXCEPT !.users = MapDelete(@, S.uid)])
    ELSE S

handleClientDisconnect(S, c) ==
    IF Truthy(S.uid)
    THEN LET S1 == [S EXCEPT !.users = MapDelete(@, S.uid)]
             S2 == IF MapHas(S1.locations, S.uid)
                   THEN broadcastLocationStop(
                           [S1 EXCEPT !.locations = MapDelete(@, S.uid)], S.uid)
                   ELSE S1
         IN  broadcastUserList(S2)
    ELSE S

\* handleWebSocketMessage ignoring a type it does not know
handleWebSocketMessage_IgnoresUnknown(S, c, data) ==
    CASE data.type = "register" -> handleUserRegistration(S, c, data)
      [] data.type = "location_update" -> handleLocationUpdate(S, c, data)
      [] data.type = "stop_sharing" -> handleStopSharing(S, c, data)
      [] data.type = "track_user" -> handleTrackUser(S, c, data)
      [] data.type = "ping" -> send(S, c, PongMsg)
      [] OTHER -> S

handleWebSocketMessage(S, c, data) ==
    CASE data.type = "register" -> handleUserRegistration(S, c, data)
      [] data.type = "location_update" -> handleLocationUpdate(S, c, data)
      [] data.type = "stop_sharing" -> handleStopSharing(S, c, data)
      [] data.type = "track_user" -> handleTrackUser(S, c, data)
      [] data.type = "ping" -> send(S, c, PongMsg)
      [] OTHER -> send(S, c, ErrorMsg(UnknownTypeText(data.type)))

(***************************************************************************)
(* ws.on('message'): the steps it took (checked: isRateLimited was called, *)
(* limited: it answered true, dispatched: handleWebSocketMessage ran) and  *)
(* the state it left.                                                      *)
(***************************************************************************)
\* ws.on('message') without the rate check
onMessage_NoRateCheck(S, c, data) ==
    IF ~data.json
    THEN [checked |-> FALSE, limited |-> FALSE, dispatched |-> FALSE,
          S |-> send(S, c, ErrorMsg("Invalid JSON"))]
    ELSE IF ~Truthy(data.type)
    THEN [checked |-> FALSE, limited |-> FALSE, dispatched |-> FALSE,
          S |-> send(S, c, ErrorMsg("Invalid message format"))]
    ELSE [checked |-> FALSE, limited |-> FALSE, dispatched |-> TRUE,
          S |-> handleWebSocketMessage(S, c, data)]

onMessage(S, c, data) ==
    IF ~data.json
    THEN [checked |-> FALSE, limited |-> FALSE, dispatched |-> FALSE,
          S |-> send(S, c, ErrorMsg("Invalid JSON"))]
    ELSE IF ~Truthy(data.type)
    THEN [checked |-> FALSE, limited |-> FALSE, dispatched |-> FALSE,
          S |-> send(S, c, ErrorMsg("Invalid message format"))]
    ELSE IF ~Truthy(S.uid)
    THEN [checked |-> FALSE, limited |-> FALSE, dispatched |-> TRUE,
          S |-> handleWebSocketMessage(S, c, data)]
    ELSE LET r == isRateLimited(S.rateLimits, S.uid)
             S1 == [S EXCEPT !.rateLimits = r.limits]
         IN  IF r.limited
             THEN [checked |-> TRUE, limited |-> TRUE, dispatched |-> FALSE,
                   S |-> send(S1, c, ErrorMsg("Rate limit exceeded"))]
             ELSE [checked |-> TRUE, limited |-> FALSE, dispatched |-> TRUE,
                   S |-> handleWebSocketMessage(S1, c, data)]

(***************************************************************************)
(* The state machine.                                                      *)
(***************************************************************************)
Open == {d \in Conns : readyState[d] = "OPEN"}

\* the state the event handlers of connection c start from
Local(c, rs, open) ==
    [users |-> users, locations |-> locations, rateLimits |-> rateLimits,
     uid |-> wsUserId[c], rs |-> rs, timeout |-> connectionTimeout[c],
     open |-> open, out |-> <<>>]

\* the handlers' state written back
Commit(c, S) ==
    /\ users' = S.users
    /\ locations' = S.locations
    /\ rateLimits' = S.rateLimits
    /\ wsUserId' = [wsUserId EXCEPT ![c] = S.uid]
    /\ readyState' = [readyState EXCEPT ![c] = S.rs]
    /\ connectionTimeout' = [connectionTimeout EXCEPT ![c] = S.timeout]
    /\ out' = S.out

Event(op, c, data, checked, limited, dispatched) ==
    [op |-> op, conn |-> c, data |-> data, checked |-> checked,
     limited |-> limited, dispatched |-> dispatched]

Init ==
    /\ now = 0
    /\ readyState = [c \in Conns |-> "NEW"]
    /\ wsUserId = [c \in Conns |-> Undef]
    /\ connectionTimeout = [c \in Conns |-> NoTimer]
    /\ users = <<>>
    /\ locations = <<>>
    /\ rateLimits = [u \in Ids |-> <<>>]
    /\ nextCleanup = CLEANUP_INTERVAL
    /\ admitted = [u \in Ids |-> <<>>]
    /\ out = <<>>
    /\ last = Event("init", NoConn, NoData, FALSE, FALSE, FALSE)

\* admitted[u] is the history the rate-limit properties are stated on: the
\* times of the requests of identity u the limiter accepted, those older than
\* the window forgotten as the clock advances
Recent(times, t) == SelectSeq(times, LAMBDA x : x > t - RATE_LIMIT_WINDOW)

\* wss.on('connection')
Connect(c) ==
    /\ readyState[c] = "NEW"
    /\ \A d \in Conns : Before(d, c) => readyState[d] # "NEW"
    /\ Commit(c, send([Local(c, "OPEN", Open) EXCEPT
                         !.timeout = now + REGISTRATION_TIMEOUT], c, WelcomeMsg))
    /\ last' = Event("connect", c, NoData, FALSE, FALSE, FALSE)
    /\ UNCHANGED <<now, nextCleanup, admitted>>

\* ws.on('message')
Message(c, data) ==
    /\ readyState[c] \in {"OPEN", "CLOSING"}
    /\ LET r == onMessage(Local(c, readyState[c], Open), c, data)
       IN  /\ Commit(c, r.S)
           /\ last' = Event("message", c, data, r.checked, r.limited, r.dispatched)
           /\ admitted' = IF r.checked /\ ~r.limited
                          THEN [admitted EXCEPT ![wsUserId[c]] = Append(@, now)]
                          ELSE admitted
    /\ UNCHANGED <<now, nextCleanup>>

\* ws.on('close'), the peer or the server having closed the socket
Close(c) ==
    /\ readyState[c] \in {"OPEN", "CLOSING"}
    /\ Commit(c, handleClientDisconnect(
                    [Local(c, "CLOSED", Open \ {c}) EXCEPT !.timeout = NoTimer], c))
    /\ last' = Event("close", c, NoData, FALSE, FALSE, FALSE)
    /\ UNCHANGED <<now, nextCleanup, admitted>>

\* the registration timer of connection c runs
Timeout(c) ==
    /\ connectionTimeout[c] # NoTimer
    /\ now >= connectionTimeout[c]
    /\ Commit(c, close([Local(c, readyState[c], Open) EXCEPT !.timeout = NoTimer], c, 1000))
    /\ last' = Event("timeout", c, NoData, FALSE, FALSE, FALSE)
    /\ UNCHANGED <<now, nextCleanup, admitted>>

\* the setInterval callback
\* the sweep deleting a Location whose age equals the TTL too
cleanLocations_AtTimeout(locs) ==
    SelectSeq(locs, LAMBDA location : ~(now - location.timestamp >= LOCATION_TIMEOUT))

cleanLocations(locs) ==
    SelectSeq(locs, LAMBDA location : ~(now - location.timestamp > LOCATION_TIMEOUT))

cleanRateLimits(limits) == [u \in DOMAIN limits |-> InWindow(limits[u], now)]

Cleanup ==
    /\ now >= nextCleanup
    /\ locations' = cleanLocations(locations)
    /\ rateLimits' = cleanRateLimits(rateLimits)
    /\ nextCleanup' = nextCleanup + CLEANUP_INTERVAL
    /\ out' = <<>>
    /\ last' = [op |-> "cleanup", conn |-> NoConn, data |-> NoData,
                checked |-> FALSE, limited |-> FALSE, dispatched |-> FALSE,
                cleanedLocations |-> Len(locations) - Len(cleanLocations(locations))]
    /\ UNCHANGED <<now, readyState, wsUserId, connectionTimeout,
                   users, admitted>>

\* the clock: no timer that is due is left waiting
Tick ==
    /\ now < MaxTime
    /\ now < nextCleanup
    /\ \A c \in Conns : connectionTimeout[c] # NoTimer => now < connectionTimeout[c]
    /\ now' = now + 1
    /\ admitted' = [u \in Ids |-> Recent(admitted[u], now + 1)]
    /\ out' = <<>>
    /\ last' = Event("tick", NoConn, NoData, FALSE, FALSE, FALSE)
    /\ UNCHANGED <<readyState, wsUserId, connectionTimeout,
                   users, locations, rateLimits, nextCleanup>>

\* sent[c]: the messages the client of connection c sends in a specification
Receive(sent) == \E c \in Conns : \E data \in sent[c] : Message(c, data)

Environment ==
    \/ \E c \in Conns : Connect(c)
    \/ \E c \in Conns : Close(c)
    \/ \E c \in Conns : Timeout(c)
    \/ Cleanup
    \/ Tick

\* every client sends every message
Next == Receive([c \in Conns |-> Inbound]) \/ Environment

Spec == Init /\ [][Next]_vars

(***************************************************************************)
(* The specifications the properties are checked under.  Each lets the     *)
(* clients send the messages of one part of the protocol; the server is    *)
(* the same in all of them.                                                *)
(***************************************************************************)
\* the rate limiter: one identity, shared by both connections
RateMessages == {Register("a", "Alice"), Ping, LocationUpdate("a", "12abc", "20")}
NextRate == Receive([c \in Conns |-> RateMessages]) \/ Environment
SpecRate == Init /\ [][NextRate]_vars

\* sessions: c1 registers as a or b, c2 as a or c; invalid registrations
SessionMessages ==
    [c \in Conns |->
        IF c = "c1"
        THEN {Register("a", "Alice"), Register("b", Undef), Register(Undef, Undef)}
        ELSE {Register("a", "Alice"), Register("c", Undef),
              Register(NumberId, "Alice"), Ping}]
NextSession == Receive(SessionMessages) \/ Environment
SpecSession == Init /\ [][NextSession]_vars

\* locations: both connections register as a and send locations for a and b
LocationMessages ==
    {Register("a", "Alice")}
    \cup {LocationUpdate(u, "12abc", "20") : u \in LocIds}
    \cup {StopSharing(u) : u \in LocIds \cup {Undef}}
    \cup {TrackUser(t) : t \in LocIds \cup {Undef}}
NextLocation == Receive([c \in Conns |-> LocationMessages]) \/ Environment
SpecLocation == Init /\ [][NextLocation]_vars

\* validation: every way of sending coordinates
ValidationMessages ==
    {Register("a", "Alice")} \cup {LocationUpdate("a", p[1], p[2]) : p \in Coordinates}
NextValidation == Receive([c \in Conns |-> ValidationMessages]) \/ Environment
SpecValidation == Init /\ [][NextValidation]_vars

\* dispatch: one message of every type
DispatchMessages ==
    {Register("a", "Alice"), LocationUpdate("a", "12abc", "20"), StopSharing(Undef),
     TrackUser("a"), Ping}
NextDispatch == Receive([c \in Conns |-> DispatchMessages]) \/ Environment
SpecDispatch == Init /\ [][NextDispatch]_vars

\* protocol errors: frames that are not JSON, have no type, or an unknown one
ProtocolMessages ==
    {Register("a", "Alice"), LocationUpdate("a", "12abc", "20"), BadJson, NoType,
     UnknownType}
NextProtocol == Receive([c \in Conns |-> ProtocolMessages]) \/ Environment
SpecProtocol == Init /\ [][NextProtocol]_vars

(***************************************************************************)
(* Properties.  out is what the last event sent, last what the event was.  *)
(***************************************************************************)
IsMessage(e, type) == e.op = "message" /\ e.data.json /\ e.data.type = type
Reply(c, message) == [to |-> {c}, bc |-> FALSE, msg |-> message]
Broadcasts(sends, type) == SelectSeq(sends, LAMBDA e : e.bc /\ e.msg.type = type)
StopsFor(sends, userId) ==
    SelectSeq(sends, LAMBDA e : e.bc /\ e.msg.type = "location_stop"
                                  /\ e.msg.userId = userId)
Age(location) == now - location.timestamp

\* C1: no location_update sent by the registration snapshot or by a track_user
\* reply carries a Location older than LOCATION_TIMEOUT.
C1_NoStaleLocationDelivered ==
    (IsMessage(last, "register") \/ IsMessage(last, "track_user")) =>
        \A i \in 1..Len(out) :
            out[i].msg.type = "location_update" =>
                now - out[i].msg.timestamp <= LOCATION_TIMEOUT

\* a registration whose snapshot sent a fresh Location and withheld a stale one
C1_Witness ==
    /\ IsMessage(last, "register")
    /\ \E i \in 1..Len(out) : out[i].msg.type = "location_update"
    /\ \E i \in 1..Len(locations) :
          /\ Age(locations[i]) > LOCATION_TIMEOUT
          /\ \A k \in 1..Len(out) :
                out[k].msg.type = "location_update" =>
                    out[k].msg.userId # locations[i].userId

\* C2: a request of an identity is rejected exactly when MAX_REQUESTS_PER_WINDOW
\* requests of that identity were accepted less than RATE_LIMIT_WINDOW ago: of
\* MAX_REQUESTS_PER_WINDOW + 1 requests in one window exactly the last is
\* rejected, and once the window has passed a request is accepted again.
C2_RateLimiter ==
    [][(last'.op = "message" /\ last'.checked) =>
          LET accepted == admitted[wsUserId[last'.conn]]
          IN  /\ last'.limited <=> Len(accepted) >= MAX_REQUESTS_PER_WINDOW
              /\ Len(accepted) <= MAX_REQUESTS_PER_WINDOW
              /\ accepted = <<>> => ~last'.limited]_vars

\* the request after MAX_REQUESTS_PER_WINDOW accepted ones has been rejected
C2_Witness ==
    /\ last.op = "message"
    /\ last.limited
    /\ Len(admitted[wsUserId[last.conn]]) = MAX_REQUESTS_PER_WINDOW

\* C3: a connection that is open and has not registered has its registration
\* timer pending and not overdue: the timer ends only with a successful
\* registration, its own expiry closing the connection, or the close.
C3_UnregisteredIsTimed ==
    \A c \in Conns :
        (readyState[c] = "OPEN" /\ ~Truthy(wsUserId[c])) =>
            (connectionTimeout[c] # NoTimer /\ now <= connectionTimeout[c])

\* C4 as claimed: once set, the bound identity of a connection never changes.
C4_IdentityImmutable ==
    [][\A c \in Conns : Truthy(wsUserId[c]) => wsUserId'[c] = wsUserId[c]]_vars

\* C4 as amended: the bound identity changes only by a register message on
\* that connection carrying a valid identity, which becomes the bound
\* identity (also when one was bound before); it is never cleared.
C4_IdentitySetByRegister ==
    [][\A c \in Conns :
          /\ Truthy(wsUserId[c]) => Truthy(wsUserId'[c])
          /\ wsUserId'[c] # wsUserId[c] =>
                /\ IsMessage(last', "register")
                /\ last'.conn = c
                /\ wsUserId'[c] = last'.data.userId
                /\ Truthy(wsUserId'[c])
                /\ IsString(wsUserId'[c])]_vars

\* c1, alone on the server, is bound to b while its Session for a remains
C4_Witness ==
    /\ IsMessage(last, "register")
    /\ last.conn = "c1"
    /\ wsUserId["c1"] = "b"
    /\ readyState["c2"] = "NEW"
    /\ MapHas(users, "a")

\* C5: when a connection bound to identity i closes, no Session and no
\* Location of i remain, a location_stop for i is broadcast exactly if a
\* Location of i was stored, and one user_list is broadcast.
C5_DisconnectCleansUp ==
    [][(last'.op = "close" /\ Truthy(wsUserId[last'.conn])) =>
          LET i == wsUserId[last'.conn]
          IN  /\ ~MapHas(users', i)
              /\ ~MapHas(locations', i)
              /\ Len(StopsFor(out', i)) = (IF MapHas(locations, i) THEN 1 ELSE 0)
              /\ Len(Broadcasts(out', "location_stop")) = Len(StopsFor(out', i))
              /\ Len(Broadcasts(out', "user_list")) = 1]_vars

\* a bound connection has closed and its Location was withdrawn
C5_Witness ==
    /\ last.op = "close"
    /\ Truthy(wsUserId[last.conn])
    /\ Len(StopsFor(out, wsUserId[last.conn])) = 1
    /\ ~MapHas(locations, wsUserId[last.conn])

\* C6: the disconnect handler run again on a connection that has closed
\* changes no store and sends nothing.
C6_DisconnectIdempotent ==
    last.op = "close" =>
        LET S == handleClientDisconnect(Local(last.conn, "CLOSED", Open), last.conn)
        IN  /\ S.out = <<>>
            /\ S.users = users
            /\ S.locations = locations

\* C7: a location_update of a registered connection whose lat or lng
\* parseFloat reads no number from, or a number out of range, is answered
\* with one error to the sender; users and locations stay as they were.
Unparseable(x) == isNaN(parseFloat(Chars(x)))
OutOfRange(x, bound) ==
    ~Unparseable(x) /\ (parseFloat(Chars(x)).v < 0 - bound \/ parseFloat(Chars(x)).v > bound)

C7_InvalidLocationRejected ==
    [][(/\ IsMessage(last', "location_update")
        /\ last'.dispatched
        /\ Truthy(wsUserId[last'.conn])
        /\ \/ Unparseable(last'.data.lat) \/ OutOfRange(last'.data.lat, 90)
           \/ Unparseable(last'.data.lng) \/ OutOfRange(last'.data.lng, 180)) =>
          /\ out' = <<Reply(last'.conn, ErrorMsg("Invalid location data"))>>
          /\ locations' = locations
          /\ users' = users]_vars

\* an invalid update was rejected while a Session and a Location were stored
C7_Witness ==
    /\ IsMessage(last, "location_update")
    /\ last.dispatched
    /\ Truthy(wsUserId[last.conn])
    /\ OutOfRange(last.data.lat, 90)
    /\ out = <<Reply(last.conn, ErrorMsg("Invalid location data"))>>
    /\ MapHas(users, wsUserId[last.conn])
    /\ locations # <<>>

\* what stop_sharing does for the identity it names, or falls back to
StopSharingEffect(e, sends) ==
    LET i == Or(e.data.userId, wsUserId[e.conn])
    IN  IF MapHas(locations, i)
        THEN /\ locations' = MapDelete(locations, i)
             /\ users' = users
             /\ sends = <<[to |-> Open, bc |-> TRUE,
                           msg |-> [type |-> "location_stop", userId |-> i,
                                    timestamp |-> now]]>>
        ELSE /\ locations' = locations
             /\ users' = users
             /\ sends = <<>>

\* C8 as claimed: a dispatched stop_sharing deletes the Location of its
\* identity and broadcasts one location_stop if one is stored, and is a
\* no-op otherwise.
C8_StopSharing ==
    [][(IsMessage(last', "stop_sharing") /\ last'.dispatched) =>
          StopSharingEffect(last', out')]_vars

\* C8 as amended: so it is on a connection with a bound identity; on a
\* connection without one stop_sharing is a no-op whatever is stored.
C8_StopSharingWhenBound ==
    [][(IsMessage(last', "stop_sharing") /\ last'.dispatched) =>
          IF Truthy(wsUserId[last'.conn])
          THEN StopSharingEffect(last', out')
          ELSE locations' = locations /\ users' = users /\ out' = <<>>]_vars

\* a stop_sharing with nothing stored for its identity did nothing, while the
\* Location of another identity stayed
C8_Witness ==
    /\ IsMessage(last, "stop_sharing")
    /\ last.dispatched
    /\ Truthy(wsUserId[last.conn])
    /\ ~MapHas(locations, Or(last.data.userId, wsUserId[last.conn]))
    /\ locations # <<>>
    /\ out = <<>>

\* C9: a message on a registered connection whose identity has a full
\* RateWindow is answered with the rate-limit error and nothing else
\* happens: no dispatch, no store changes (the RateWindow included), no
\* broadcast.
C9_RateLimitedDropped ==
    [][(/\ last'.op = "message"
        /\ last'.data.json
        /\ Truthy(last'.data.type)
        /\ Truthy(wsUserId[last'.conn])
        /\ Len(Recent(rateLimits[wsUserId[last'.conn]], now))
              >= MAX_REQUESTS_PER_WINDOW) =>
          /\ last'.limited
          /\ ~last'.dispatched
          /\ out' = <<Reply(last'.conn, ErrorMsg("Rate limit exceeded"))>>
          /\ users' = users
          /\ locations' = locations
          /\ rateLimits' = rateLimits
          /\ wsUserId' = wsUserId
          /\ readyState' = readyState
          /\ connectionTimeout' = connectionTimeout]_vars

\* a location_update was dropped by the rate limiter, the RateWindow of its
\* identity being full
C9_Witness ==
    /\ IsMessage(last, "location_update")
    /\ last.limited
    /\ out = <<Reply(last.conn, ErrorMsg("Rate limit exceeded"))>>
    /\ Len(Recent(rateLimits[wsUserId[last.conn]], now)) = MAX_REQUESTS_PER_WINDOW

\* C10 as claimed: no message is dispatched that the rate limiter has not
\* admitted.
C10_DispatchedWasAdmitted ==
    (last.op = "message" /\ last.dispatched) => (last.checked /\ ~last.limited)

\* C10 as amended: on a connection with a bound identity a message is
\* dispatched only after the rate limiter admitted and recorded it; on a
\* connection without one it is dispatched with no rate check.
C10_BoundDispatchedWasAdmitted ==
    [][(last'.op = "message" /\ last'.dispatched) =>
          IF Truthy(wsUserId[last'.conn])
          THEN /\ last'.checked
               /\ ~last'.limited
               /\ \E k \in 1..Len(rateLimits'[wsUserId[last'.conn]]) :
                     rateLimits'[wsUserId[last'.conn]][k] = now
          ELSE ~last'.checked /\ rateLimits' = rateLimits]_vars

\* a track_user of a registered connection was admitted and answered
C10_Witness ==
    /\ IsMessage(last, "track_user")
    /\ last.dispatched
    /\ last.checked
    /\ Truthy(wsUserId[last.conn])
    /\ Len(out) = 1

\* C11: a register with a valid identity that has no Session, received while
\* users holds MAX_USERS Sessions, is answered with the capacity error and
\* the close with code 1013 (a socket that is closing already is not closed
\* again); users and the bound identity stay as they were and no user_list
\* is broadcast.
CloseFrame(c, code) == Reply(c, [type |-> "close", code |-> code])

C11_CapacityRejected ==
    [][(/\ IsMessage(last', "register")
        /\ last'.dispatched
        /\ Truthy(last'.data.userId)
        /\ IsString(last'.data.userId)
        /\ Len(users) = MAX_USERS
        /\ ~MapHas(users, last'.data.userId)) =>
          /\ out' = IF readyState[last'.conn] = "OPEN"
                    THEN <<Reply(last'.conn, ErrorMsg("Server at capacity")),
                           CloseFrame(last'.conn, 1013)>>
                    ELSE <<Reply(last'.conn, ErrorMsg("Server at capacity"))>>
          /\ readyState'[last'.conn] = "CLOSING"
          /\ users' = users
          /\ wsUserId' = wsUserId
          /\ Broadcasts(out', "user_list") = <<>>]_vars

\* an open, unbound connection was refused at capacity and is closing
C11_Witness ==
    /\ IsMessage(last, "register")
    /\ last.data.userId = "c"
    /\ Len(users) = MAX_USERS
    /\ ~MapHas(users, "c")
    /\ ~Truthy(wsUserId[last.conn])
    /\ readyState[last.conn] = "CLOSING"
    /\ Len(out) = 2
    /\ out[2] = CloseFrame(last.conn, 1013)

\* C12: the snapshot an accepted register pushes to its connection holds,
\* for every identity whose stored Location is younger than LOCATION_TIMEOUT,
\* exactly one location_update carrying that Location, and nothing for any
\* other identity (none stored, or one of age LOCATION_TIMEOUT or more).
Accepted(sends) == \E i \in 1..Len(sends) : sends[i].msg.type = "registration_success"
Snapshot(sends) == SelectSeq(sends, LAMBDA e : ~e.bc /\ e.msg.type = "location_update")
Active(userId) ==
    \E i \in 1..Len(locations) :
        locations[i].userId = userId /\ Age(locations[i]) < LOCATION_TIMEOUT

C12_SnapshotIsActive ==
    (IsMessage(last, "register") /\ Accepted(out)) =>
        \A u \in Ids :
            LET sent == SelectSeq(Snapshot(out), LAMBDA e : e.msg.userId = u)
            IN  IF Active(u)
                THEN sent = <<Reply(last.conn, LocationMsg(MapGet(locations, u)))>>
                ELSE sent = <<>>

\* a snapshot with the Location of one identity, that of another being of age
\* LOCATION_TIMEOUT exactly
C12_Witness ==
    /\ IsMessage(last, "register")
    /\ Accepted(out)
    /\ Len(Snapshot(out)) = 1
    /\ \E i \in 1..Len(locations) : Age(locations[i]) = LOCATION_TIMEOUT

\* C13: a dispatched track_user naming a target whose stored Location is
\* younger than LOCATION_TIMEOUT sends one location_update carrying that
\* Location, to the requester alone; naming a target with no Location, or
\* with an older one, it sends nothing; users and locations stay as they were.
C13_TrackUser ==
    [][(/\ IsMessage(last', "track_user")
        /\ last'.dispatched
        /\ Truthy(last'.data.targetUserId)) =>
          /\ out' = IF Active(last'.data.targetUserId)
                    THEN <<Reply(last'.conn,
                                 LocationMsg(MapGet(locations, last'.data.targetUserId)))>>
                    ELSE <<>>
          /\ users' = users
          /\ locations' = locations]_vars

\* a track_user was answered, to the requester alone of two open connections
C13_Witness ==
    /\ IsMessage(last, "track_user")
    /\ last.dispatched
    /\ Open = Conns
    /\ Len(out) = 1
    /\ out[1].to = {last.conn}
    /\ out[1].msg.type = "location_update"
    /\ out[1].msg.userId = last.data.targetUserId

\* C14: an accepted location_update of a registered connection sends one
\* location_update, carrying the identity of the message and the coordinates
\* parseFloat reads from it, to every open connection (the sender and the
\* unregistered ones included), and locations holds that identity's Location
\* with those coordinates.
C14_LocationUpdateBroadcast ==
    [][(/\ IsMessage(last', "location_update")
        /\ last'.dispatched
        /\ Truthy(wsUserId[last'.conn])
        /\ ~Unparseable(last'.data.lat) /\ ~OutOfRange(last'.data.lat, 90)
        /\ ~Unparseable(last'.data.lng) /\ ~OutOfRange(last'.data.lng, 180)) =>
          LET lat == parseFloat(Chars(last'.data.lat)).v
              lng == parseFloat(Chars(last'.data.lng)).v
          IN  /\ Len(out') = 1
              /\ out'[1].to = Open
              /\ out'[1].msg.type = "location_update"
              /\ out'[1].msg.userId = last'.data.userId
              /\ out'[1].msg.lat = lat
              /\ out'[1].msg.lng = lng
              /\ MapHas(locations', last'.data.userId)
              /\ MapGet(locations', last'.data.userId).lat = lat
              /\ MapGet(locations', last'.data.userId).lng = lng
              /\ MapGet(locations', last'.data.userId).timestamp = now]_vars

\* the update of a registered connection reached it and an unregistered one
C14_Witness ==
    /\ IsMessage(last, "location_update")
    /\ last.dispatched
    /\ wsUserId[last.conn] = last.data.userId
    /\ Open = Conns
    /\ \E c \in Conns : ~Truthy(wsUserId[c])
    /\ Len(out) = 1
    /\ out[1].to = Conns
    /\ out[1].msg.type = "location_update"
    /\ MapHas(locations, last.data.userId)

\* C15: the sweep deletes the Locations older than LOCATION_TIMEOUT, keeps
\* the others as they are and sends nothing; an identity has a Location
\* again only through a location_update naming it, and a registration
\* snapshot or a track_user reply carries stored Locations only.
C15_SilentExpiry ==
    [][/\ last'.op = "cleanup" =>
            /\ \A i \in 1..Len(locations) :
                  IF Age(locations[i]) > LOCATION_TIMEOUT
                  THEN ~MapHas(locations', locations[i].userId)
                  ELSE /\ MapHas(locations', locations[i].userId)
                       /\ MapGet(locations', locations[i].userId) = locations[i]
            /\ Len(locations') <= Len(locations)
            /\ out' = <<>>
            /\ users' = users
       /\ \A u \in Ids :
            (~MapHas(locations, u) /\ MapHas(locations', u)) =>
                (IsMessage(last', "location_update") /\ last'.data.userId = u)
       /\ (IsMessage(last', "register") \/ IsMessage(last', "track_user")) =>
            \A i \in 1..Len(out') :
                out'[i].msg.type = "location_update" =>
                    MapHas(locations', out'[i].msg.userId)]_vars

\* a sweep deleted one Location and kept another, of age LOCATION_TIMEOUT
C15_Witness ==
    /\ last.op = "cleanup"
    /\ last.cleanedLocations = 1
    /\ \E i \in 1..Len(locations) : Age(locations[i]) = LOCATION_TIMEOUT

\* C16: a frame that is not JSON, has no type or has an unknown type is
\* answered with one error, sent to the sender alone; the socket, its bound
\* identity and its registration timer stay as they were, and so do users
\* and locations.
ProtocolError(data) == ~data.json \/ ~Truthy(data.type) \/ data.type = "foo"

C16_ProtocolError ==
    [][(last'.op = "message" /\ ProtocolError(last'.data)) =>
          /\ out' = <<Reply(last'.conn, ErrorMsg(
                        IF ~last'.data.json THEN "Invalid JSON"
                        ELSE IF ~Truthy(last'.data.type) THEN "Invalid message format"
                        ELSE IF last'.limited THEN "Rate limit exceeded"
                        ELSE "Unknown message type: foo"))>>
          /\ readyState' = readyState
          /\ wsUserId' = wsUserId
          /\ connectionTimeout' = connectionTimeout
          /\ users' = users
          /\ locations' = locations]_vars

\* an unknown type on an open, unregistered connection whose timer is
\* pending, a Session and a Location being stored
C16_Witness ==
    /\ last.op = "message"
    /\ last.data.type = "foo"
    /\ last.dispatched
    /\ readyState[last.conn] = "OPEN"
    /\ ~Truthy(wsUserId[last.conn])
    /\ connectionTimeout[last.conn] # NoTimer
    /\ users # <<>>
    /\ locations # <<>>
    /\ out = <<Reply(last.conn, ErrorMsg("Unknown message type: foo"))>>

\* C17: a stored RateWindow never holds more than MAX_REQUESTS_PER_WINDOW
\* timestamps, and whenever a RateWindow is written, every timestamp it then
\* holds is less than RATE_LIMIT_WINDOW old.
C17_RateWindowBounded ==
    [][\A u \in Ids :
          /\ Len(rateLimits'[u]) <= MAX_REQUESTS_PER_WINDOW
          /\ rateLimits'[u] # rateLimits[u] =>
                rateLimits'[u] = Recent(rateLimits'[u], now)]_vars

\* the RateWindow of a was filled by two requests at time 1, the request
\* that stored the Location of a at time 0 being forgotten
C17_Witness ==
    /\ last.op = "message"
    /\ last.checked
    /\ ~last.limited
    /\ now = 1
    /\ rateLimits["a"] = <<1, 1>>
    /\ MapHas(locations, "a")
    /\ MapGet(locations, "a").timestamp = 0

\* C18: an accepted register sends, in this order, registration_success to
\* its connection, one user_list that holds the registered identity to every
\* open connection, and then the location_update messages of the snapshot
\* to its connection alone.
C18_RegistrationOrder ==
    (IsMessage(last, "register") /\ Accepted(out)) =>
        /\ Len(out) >= 2
        /\ out[1] = Reply(last.conn, [type |-> "registration_success",
                                       userId |-> last.data.userId])
        /\ out[2].bc
        /\ out[2].to = Open
        /\ out[2].msg.type = "user_list"
        /\ \E i \in 1..Len(out[2].msg.users) :
              out[2].msg.users[i].userId = last.data.userId
        /\ \A k \in 3..Len(out) :
              /\ ~out[k].bc
              /\ out[k].to = {last.conn}
              /\ out[k].msg.type = "location_update"

\* a registration with two connections open and two Locations to push
C18_Witness ==
    /\ IsMessage(last, "register")
    /\ Accepted(out)
    /\ Open = Conns
    /\ Len(out) = 4
    /\ out[2].to = Conns

\* C19: every Session in users is that of a connection that has not closed
\* and is bound to the Session's identity.
C19_NoOrphanSession ==
    \A i \in 1..Len(users) :
        \E c \in Conns :
            /\ readyState[c] \in {"OPEN", "CLOSING"}
            /\ wsUserId[c] = users[i].userId

\* C20: every open connection with a bound identity has a Session for that
\* identity in users.
C20_BoundHasSession ==
    \A c \in Conns :
        (readyState[c] = "OPEN" /\ Truthy(wsUserId[c])) => MapHas(users, wsUserId[c])

\* C21: users never holds more than MAX_USERS Sessions.
C21_SessionsBounded == Len(users) <= MAX_USERS

\* users being full after c1 registered twice, c2 has registered an identity
\* that has a Session and was accepted
C21_Witness ==
    /\ IsMessage(last, "register")
    /\ last.conn = "c2"
    /\ last.data.userId = "a"
    /\ Accepted(out)
    /\ wsUserId["c1"] = "b"
    /\ Len(users) = MAX_USERS

\* C22: a location_update or stop_sharing of a connection bound to identity
\* i leaves the Location of every other identity as it was: none created,
\* none overwritten, none deleted.
SameLocation(u) ==
    IF MapHas(locations, u)
    THEN MapHas(locations', u) /\ MapGet(locations', u) = MapGet(locations, u)
    ELSE ~MapHas(locations', u)

C22_OwnLocationOnly ==
    [][(/\ IsMessage(last', "location_update") \/ IsMessage(last', "stop_sharing")
        /\ Truthy(wsUserId[last'.conn])) =>
          \A u \in Ids \ {wsUserId[last'.conn]} : SameLocation(u)]_vars

====
